---- MODULE Spec2Model ----
(***************************************************************************)
(* RealtimeTranslator (english_translator.py): a control thread calling    *)
(* start() and stop(), the recording thread (_record_chunks) with the      *)
(* audio device's callback, and the processing thread (_process_chunks),   *)
(* sharing the is_running flag and the audio_queue.                        *)
(***************************************************************************)
EXTENDS Integers, Sequences, FiniteSets, TLC

\* Number of start() calls that spawn a worker pair.
MaxStarts == 2
\* Number of chunks the audio device completes over the whole run.
MaxChunks == 2

Gens == 1..MaxStarts
Chunks == 1..MaxChunks

VARIABLES
    is_running,         \* self.is_running
    audio_queue,        \* self.audio_queue (queue.Queue), a sequence of chunks
    recording_thread,   \* self.recording_thread: 0 = attribute not set, else a thread
    processing_thread,  \* self.processing_thread: 0 = attribute not set, else a thread
    gen,                \* number of worker pairs spawned so far
    ctl_pc,             \* position of the control thread
    ret,                \* "start"/"stop": the call that last changed the flag has returned
    device_failed,      \* the device could not be opened since the last start()
    rec_pc,             \* position of each recording thread
    cb_pc,              \* position of the device callback of each thread's stream
    cb_chunk,           \* indata of the callback in progress (0 = none)
    cb_before_stop,     \* the callback in progress began while the control thread was outside stop()
    proc_pc,            \* position of each processing thread
    audio_chunk,        \* audio_chunk local of each processing thread (0 = none)
    transcription,      \* transcription local of each processing thread
    tmp_files,          \* temporary WAV files that exist
    next_chunk,         \* the next chunk the device will complete
    enqueued,           \* history: chunks put in audio_queue, in order
    dequeued,           \* history: chunks got from audio_queue, in order
    recog,              \* history: the recognition result of each chunk
    translate_calls,    \* history: _translate_text calls, <<chunk, text, language>>
    translated,         \* history: per chunk, what _translate_text returned
    output,             \* history: lines printed by _print_translation, <<chunk, text>>
    queue_at_stop,      \* history: audio_queue when stop() cleared is_running
    deq_at_stop,        \* history: Len(dequeued) when stop() cleared is_running
    backlog,            \* history: the chunks found in audio_queue by the last start()
                        \* that this run has not got yet
    binary_exists,      \* os.path.exists(self.binary_path)
    model_exists,       \* os.path.exists(self.model_path)
    reported            \* the path __init__ reported as missing before sys.exit(1)

vars == <<is_running, audio_queue, recording_thread, processing_thread, gen, ctl_pc,
          ret, device_failed, rec_pc, cb_pc, cb_chunk, proc_pc, audio_chunk, transcription, tmp_files,
          next_chunk, enqueued, dequeued, recog, translate_calls, translated, output,
          queue_at_stop, deq_at_stop, cb_before_stop, backlog, binary_exists,
          model_exists, reported>>

init_vars == <<binary_exists, model_exists, reported>>
ctl_vars == <<is_running, recording_thread, processing_thread, gen, ctl_pc, ret,
              queue_at_stop, deq_at_stop, backlog, init_vars>>
rec_vars == <<rec_pc, device_failed>>
cb_vars == <<cb_pc, cb_chunk, cb_before_stop, next_chunk, enqueued>>
proc_vars == <<proc_pc, audio_chunk, transcription, tmp_files, dequeued, recog,
               translate_calls, translated, output>>

Range(s) == {s[i] : i \in DOMAIN s}

\* A queue whose put adds at the front.
QueuePut_Front(q, x) == <<x>> \o q

\* queue.Queue.put: the item is added at the back.
QueuePut(q, x) == Append(q, x)

\* queue.Queue.get: the item at the front is removed and returned.
\* A queue built with maxsize 1, whose put blocks while it holds a chunk.
QueueHasRoom_Capped(q) == Len(q) < 1

\* line 26: queue.Queue() has no maxsize, so put (line 68) never waits for room.
QueueHasRoom(q) == TRUE

QueueFront(q) == Head(q)
QueueRest(q) == Tail(q)

\* A thread is alive from Thread.start() until its target returns or raises.
Alive(pc) == pc \notin {"unborn", "done"}

\* Texts are sequences of tokens: "sp" is whitespace, "BLANK" is the substring
\* '[BLANK_AUDIO]', "w" and "hola" are words.
IsSpace(t) == t = "sp"

RECURSIVE lstrip(_)
lstrip(s) == IF s # <<>> /\ IsSpace(Head(s)) THEN lstrip(Tail(s)) ELSE s

RECURSIVE rstrip(_)
rstrip(s) ==
    IF s # <<>> /\ IsSpace(s[Len(s)]) THEN rstrip(SubSeq(s, 1, Len(s) - 1)) ELSE s

\* str.strip()
strip(s) == rstrip(lstrip(s))

\* '[BLANK_AUDIO]' in text
ContainsBlank(s) == \E i \in DOMAIN s : s[i] = "BLANK"

\* A str-or-None value: None is <<>>, the string s is <<s>>.
None == <<>>
Str(s) == <<s>>

\* Python truthiness of a str-or-None value.
Truthy(v) == v # None /\ v[1] # <<>>

\* What whisper-cli may write to stdout.
Stdouts == {<<>>, <<"sp">>, <<"BLANK">>, <<"sp", "BLANK">>, <<"w", "BLANK">>,
            <<"w">>, <<"sp", "w">>}

\* The recognition result a chunk's stdout stands for: no text at all, the
\* blank-audio sentinel alone, text around the sentinel, or plain text.
NonSpace(s) == SelectSeq(s, LAMBDA t : ~IsSpace(t))
ResultOf(stdout) ==
    CASE NonSpace(stdout) = <<>> -> "empty"
      [] NonSpace(stdout) = <<"BLANK">> -> "blank"
      [] ContainsBlank(stdout) -> "mixed"
      [] OTHER -> "text"
\* What the 'response' field of the translation service may hold.
Responses == {<<>>, <<"sp">>, <<"hola">>, <<"hola", "sp">>}

\* line 137-138: transcription = result.stdout.strip(); None if empty
TranscriptionOf(stdout) == IF strip(stdout) # <<>> THEN Str(strip(stdout)) ELSE None

\* A test that lets the sentinel through.
WantsTranslation_NoBlankTest(t) == Truthy(t)

\* line 89: if transcription and '[BLANK_AUDIO]' not in transcription
WantsTranslation(t) == Truthy(t) /\ ~ContainsBlank(t[1])

\* line 176: translation = response.json()['response'].strip()
TranslationOf(response) == Str(strip(response))

\* line 16: LANGUAGE, the language named in the prompt of lines 153-163
LANGUAGE == "Spanish"

\* What is remembered of a chunk's _translate_text call: not made, returned
\* None (lines 179-183), or returned the stripped answer (line 177).
NotTranslated == <<"none">>
TranslationFailed == <<"failed">>
Translated(translation) == <<"ok", translation>>

\* A print that leaves the translation out.
PrintedLine_Empty(translation) == <<"sp">>

\* line 189: the printed text is f" {translation}", wrapped
PrintedLine(translation) == <<"sp">> \o translation

Init ==
    /\ is_running = FALSE
    /\ audio_queue = <<>>
    /\ recording_thread = 0
    /\ processing_thread = 0
    /\ gen = 0
    /\ ctl_pc = "init_34"
    /\ binary_exists \in BOOLEAN
    /\ model_exists \in BOOLEAN
    /\ reported = "none"
    /\ backlog = <<>>
    /\ ret = "none"
    /\ device_failed = FALSE
    /\ rec_pc = [g \in Gens |-> "unborn"]
    /\ cb_pc = [g \in Gens |-> "idle"]
    /\ cb_chunk = [g \in Gens |-> 0]
    /\ cb_before_stop = [g \in Gens |-> FALSE]
    /\ proc_pc = [g \in Gens |-> "unborn"]
    /\ audio_chunk = [g \in Gens |-> 0]
    /\ transcription = [g \in Gens |-> None]
    /\ tmp_files = 0
    /\ next_chunk = 1
    /\ enqueued = <<>>
    /\ dequeued = <<>>
    /\ recog = [c \in Chunks |-> "none"]
    /\ translate_calls = <<>>
    /\ translated = [c \in Chunks |-> NotTranslated]
    /\ output = <<>>
    /\ queue_at_stop = <<>>
    /\ deq_at_stop = 0

-----------------------------------------------------------------------------
\* The control thread.

\* An __init__ that tests the binary and not the model file.
PathsVerified_BinaryOnly(binary, model) == binary

\* lines 34-39: both paths must exist for __init__ to return.
PathsVerified(binary, model) == binary /\ model

\* __init__, lines 34-39: report the first missing path and sys.exit(1), or
\* return to main(), which waits for a key.
verify_paths ==
    /\ ctl_pc = "init_34"
    /\ ctl_pc' = IF PathsVerified(binary_exists, model_exists) THEN "idle" ELSE "exited"
    /\ reported' = IF ~binary_exists THEN "binary"
                   ELSE IF ~model_exists THEN "model" ELSE "none"
    /\ UNCHANGED <<is_running, recording_thread, processing_thread, gen, ret,
                   queue_at_stop, deq_at_stop, backlog, binary_exists, model_exists>>
    /\ UNCHANGED <<rec_vars, cb_vars, proc_vars, audio_queue>>

\* The control thread calls translator.start().
call_start ==
    /\ ctl_pc = "idle"
    /\ is_running \/ gen < MaxStarts
    /\ ctl_pc' = "start_43"
    /\ UNCHANGED <<is_running, recording_thread, processing_thread, gen, ret,
                   queue_at_stop, deq_at_stop>>
    /\ UNCHANGED <<rec_vars, cb_vars, proc_vars, audio_queue, init_vars, backlog>>

\* A start() without the test of lines 43-44.
start_check_NoGuard ==
    /\ ctl_pc = "start_43"
    /\ gen < MaxStarts
    /\ is_running' = TRUE
    /\ ctl_pc' = "start_52"
    /\ ret' = "none"
    /\ device_failed' = FALSE
    /\ queue_at_stop' = <<>>
    /\ deq_at_stop' = 0
    /\ backlog' = audio_queue
    /\ UNCHANGED <<recording_thread, processing_thread, gen>>
    /\ UNCHANGED <<rec_pc, cb_vars, proc_vars, audio_queue, init_vars>>

\* A start() that begins with a new, empty queue.
start_check_NewQueue ==
    /\ ctl_pc = "start_43"
    /\ IF is_running
       THEN /\ ctl_pc' = "idle"
            /\ UNCHANGED <<is_running, ret, device_failed, queue_at_stop, deq_at_stop,
                           backlog, audio_queue>>
       ELSE /\ is_running' = TRUE
            /\ ctl_pc' = "start_52"
            /\ ret' = "none"
            /\ device_failed' = FALSE
            /\ queue_at_stop' = <<>>
            /\ deq_at_stop' = 0
            /\ backlog' = audio_queue
            /\ audio_queue' = <<>>
    /\ UNCHANGED <<recording_thread, processing_thread, gen>>
    /\ UNCHANGED <<rec_pc, cb_vars, proc_vars, init_vars>>

\* start(), lines 43-46: return if running, else set the flag.
start_check ==
    /\ ctl_pc = "start_43"
    /\ IF is_running
       THEN /\ ctl_pc' = "idle"
            /\ UNCHANGED <<is_running, ret, device_failed, queue_at_stop, deq_at_stop,
                           backlog>>
       ELSE /\ is_running' = TRUE
            /\ ctl_pc' = "start_52"
            /\ ret' = "none"
            /\ device_failed' = FALSE
            /\ queue_at_stop' = <<>>
            /\ deq_at_stop' = 0
            /\ backlog' = audio_queue
    /\ UNCHANGED <<recording_thread, processing_thread, gen>>
    /\ UNCHANGED <<rec_pc, cb_vars, proc_vars, audio_queue, init_vars>>

\* A start() that creates its recording thread once and starts the same one again.
start_recording_thread_Once ==
    /\ ctl_pc = "start_52"
    /\ gen' = gen + 1
    /\ recording_thread' = IF recording_thread = 0 THEN gen + 1 ELSE recording_thread
    /\ rec_pc' = IF recording_thread = 0
                  THEN [rec_pc EXCEPT ![gen + 1] = "started"]
                  ELSE rec_pc
    /\ ctl_pc' = "start_56"
    /\ UNCHANGED <<is_running, processing_thread, ret, queue_at_stop, deq_at_stop>>
    /\ UNCHANGED <<device_failed, cb_vars, proc_vars, audio_queue, init_vars, backlog>>

\* start(), lines 52-53: create and start the recording thread.
start_recording_thread ==
    /\ ctl_pc = "start_52"
    /\ gen' = gen + 1
    /\ recording_thread' = gen + 1
    /\ rec_pc' = [rec_pc EXCEPT ![gen + 1] = "started"]
    /\ ctl_pc' = "start_56"
    /\ UNCHANGED <<is_running, processing_thread, ret, queue_at_stop, deq_at_stop>>
    /\ UNCHANGED <<device_failed, cb_vars, proc_vars, audio_queue, init_vars, backlog>>

\* start(), lines 56-57: create and start the processing thread, and return.
start_processing_thread ==
    /\ ctl_pc = "start_56"
    /\ processing_thread' = gen
    /\ proc_pc' = [proc_pc EXCEPT ![gen] = "test"]
    /\ ctl_pc' = "idle"
    /\ ret' = "start"
    /\ UNCHANGED <<is_running, recording_thread, gen, queue_at_stop, deq_at_stop>>
    /\ UNCHANGED <<rec_vars, cb_vars, audio_queue, init_vars, backlog>>
    /\ UNCHANGED <<audio_chunk, transcription, tmp_files, dequeued, recog,
                   translate_calls, translated, output>>

\* The control thread calls translator.stop().
call_stop ==
    /\ ctl_pc = "idle"
    /\ ctl_pc' = "stop_197"
    /\ UNCHANGED <<is_running, recording_thread, processing_thread, gen, ret,
                   queue_at_stop, deq_at_stop>>
    /\ UNCHANGED <<rec_vars, cb_vars, proc_vars, audio_queue, init_vars, backlog>>

\* A stop() without the test of lines 197-198.
stop_check_NoGuard ==
    /\ ctl_pc = "stop_197"
    /\ is_running' = FALSE
    /\ ctl_pc' = "stop_204"
    /\ ret' = "none"
    /\ queue_at_stop' = audio_queue
    /\ deq_at_stop' = Len(dequeued)
    /\ backlog' = <<>>
    /\ UNCHANGED <<recording_thread, processing_thread, gen>>
    /\ UNCHANGED <<rec_vars, cb_vars, proc_vars, audio_queue, init_vars>>

\* stop(), lines 197-201: return if not running, else clear the flag.
stop_check ==
    /\ ctl_pc = "stop_197"
    /\ IF ~is_running
       THEN /\ ctl_pc' = "idle"
            /\ UNCHANGED <<is_running, ret, queue_at_stop, deq_at_stop, backlog>>
       ELSE /\ is_running' = FALSE
            /\ ctl_pc' = "stop_204"
            /\ ret' = "none"
            /\ queue_at_stop' = audio_queue
            /\ deq_at_stop' = Len(dequeued)
            /\ backlog' = <<>>
    /\ UNCHANGED <<recording_thread, processing_thread, gen>>
    /\ UNCHANGED <<rec_vars, cb_vars, proc_vars, audio_queue, init_vars>>

\* A join that returns at once, whether or not the thread has ended.
Joined_NoWait(pcs, t) == TRUE

\* Thread.join(): returns once the thread is no longer alive.
Joined(pcs, t) == ~Alive(pcs[t])

\* A stop() that does not join the recording thread.
stop_join_recording_Skipped ==
    /\ ctl_pc = "stop_204"
    /\ ctl_pc' = "stop_206"
    /\ UNCHANGED <<is_running, recording_thread, processing_thread, gen, ret,
                   queue_at_stop, deq_at_stop>>
    /\ UNCHANGED <<rec_vars, cb_vars, proc_vars, audio_queue, init_vars, backlog>>

\* stop(), lines 204-205: join the recording thread if the attribute exists.
stop_join_recording ==
    /\ ctl_pc = "stop_204"
    /\ recording_thread # 0 => Joined(rec_pc, recording_thread)
    /\ ctl_pc' = "stop_206"
    /\ UNCHANGED <<is_running, recording_thread, processing_thread, gen, ret,
                   queue_at_stop, deq_at_stop>>
    /\ UNCHANGED <<rec_vars, cb_vars, proc_vars, audio_queue, init_vars, backlog>>

\* stop(), lines 206-209: join the processing thread if the attribute exists, return.
stop_join_processing ==
    /\ ctl_pc = "stop_206"
    /\ processing_thread # 0 => Joined(proc_pc, processing_thread)
    /\ ctl_pc' = "idle"
    /\ ret' = "stop"
    /\ UNCHANGED <<is_running, recording_thread, processing_thread, gen, queue_at_stop,
                   deq_at_stop>>
    /\ UNCHANGED <<rec_vars, cb_vars, proc_vars, audio_queue, init_vars, backlog>>

-----------------------------------------------------------------------------
\* The recording thread (_record_chunks) and the device callback.

\* The stream exists from InputStream.__enter__ to the end of __exit__.
StreamOpen(g) == rec_pc[g] \in {"loop", "closing"}

InStop == ctl_pc \in {"stop_197", "stop_204", "stop_206"}

\* lines 70-75: sd.InputStream(...) opens the device.
record_open(g) ==
    /\ rec_pc[g] = "started"
    /\ rec_pc' = [rec_pc EXCEPT ![g] = "loop"]
    /\ UNCHANGED <<device_failed, ctl_vars, cb_vars, proc_vars, audio_queue>>

\* lines 70-75: sd.InputStream(...) raises; nothing in _record_chunks or in
\* start() catches it, so the thread ends with the exception.
record_open_fail(g) ==
    /\ rec_pc[g] = "started"
    /\ rec_pc' = [rec_pc EXCEPT ![g] = "done"]
    /\ device_failed' = TRUE
    /\ UNCHANGED <<ctl_vars, cb_vars, proc_vars, audio_queue>>

\* lines 76-77: while self.is_running: sd.sleep(100)
record_poll(g) ==
    /\ rec_pc[g] = "loop"
    /\ rec_pc' = [rec_pc EXCEPT ![g] = IF is_running THEN "loop" ELSE "closing"]
    /\ UNCHANGED <<device_failed, ctl_vars, cb_vars, proc_vars, audio_queue>>

\* Leaving the with block closes the stream, which waits for a callback in
\* progress; then _record_chunks returns.
record_close(g) ==
    /\ rec_pc[g] = "closing"
    /\ cb_pc[g] = "idle"
    /\ rec_pc' = [rec_pc EXCEPT ![g] = "done"]
    /\ UNCHANGED <<device_failed, ctl_vars, cb_vars, proc_vars, audio_queue>>

\* The device has filled a block of chunk_samples frames and calls callback.
callback_enter(g) ==
    /\ StreamOpen(g)
    /\ cb_pc[g] = "idle"
    /\ next_chunk <= MaxChunks
    /\ cb_pc' = [cb_pc EXCEPT ![g] = "check"]
    /\ cb_chunk' = [cb_chunk EXCEPT ![g] = next_chunk]
    /\ next_chunk' = next_chunk + 1
    /\ cb_before_stop' = [cb_before_stop EXCEPT ![g] = ~InStop]
    /\ UNCHANGED enqueued
    /\ UNCHANGED <<ctl_vars, rec_vars, proc_vars, audio_queue>>

\* The callback returns.
callback_return(g) ==
    /\ cb_pc' = [cb_pc EXCEPT ![g] = "idle"]
    /\ cb_chunk' = [cb_chunk EXCEPT ![g] = 0]
    /\ cb_before_stop' = [cb_before_stop EXCEPT ![g] = FALSE]

\* A callback that never enqueues.
CallbackEnqueues_Never == FALSE

\* line 66: if self.is_running
CallbackEnqueues == is_running

\* lines 64-66: the status is reported, the flag is read.
callback_check(g) ==
    /\ cb_pc[g] = "check"
    /\ IF CallbackEnqueues
       THEN /\ cb_pc' = [cb_pc EXCEPT ![g] = "put"]
            /\ UNCHANGED <<cb_chunk, cb_before_stop>>
       ELSE callback_return(g)
    /\ UNCHANGED <<next_chunk, enqueued>>
    /\ UNCHANGED <<ctl_vars, rec_vars, proc_vars, audio_queue>>

\* line 68: self.audio_queue.put(indata.copy())
callback_put(g) ==
    /\ cb_pc[g] = "put"
    /\ QueueHasRoom(audio_queue)
    /\ audio_queue' = QueuePut(audio_queue, cb_chunk[g])
    /\ enqueued' = Append(enqueued, cb_chunk[g])
    /\ callback_return(g)
    /\ UNCHANGED next_chunk
    /\ UNCHANGED <<ctl_vars, rec_vars, proc_vars>>

-----------------------------------------------------------------------------
\* The processing thread (_process_chunks).

\* Back to the head of the while loop of _process_chunks.
NextIteration(g) ==
    /\ proc_pc' = [proc_pc EXCEPT ![g] = "test"]
    /\ audio_chunk' = [audio_chunk EXCEPT ![g] = 0]
    /\ transcription' = [transcription EXCEPT ![g] = None]

\* An exception that leaves _process_chunks: the thread ends.
ChunkErrorCaught_Escapes(g) ==
    /\ proc_pc' = [proc_pc EXCEPT ![g] = "done"]
    /\ audio_chunk' = [audio_chunk EXCEPT ![g] = 0]
    /\ transcription' = [transcription EXCEPT ![g] = None]

\* lines 99-100: except Exception: the error is printed, the loop goes on.
ChunkErrorCaught(g) == NextIteration(g)

\* A loop that goes on until the queue is empty.
ProcessLoopCondition_Drain == is_running \/ audio_queue # <<>>

\* line 81: the condition of while self.is_running
ProcessLoopCondition == is_running

\* line 81: while self.is_running
process_test(g) ==
    /\ proc_pc[g] = "test"
    /\ proc_pc' = [proc_pc EXCEPT ![g] = IF ProcessLoopCondition THEN "get" ELSE "done"]
    /\ UNCHANGED <<audio_chunk, transcription, tmp_files, dequeued, recog,
                   translate_calls, translated, output>>
    /\ UNCHANGED <<ctl_vars, rec_vars, cb_vars, audio_queue>>

\* A get without timeout waits until an item arrives.
GetTimesOut_Never == FALSE

\* line 84: get(timeout=0.5) on an empty queue raises queue.Empty after 0.5 s.
GetTimesOut == TRUE

\* line 84: self.audio_queue.get(timeout=0.5); lines 97-98: queue.Empty, continue
process_get(g) ==
    /\ proc_pc[g] = "get"
    /\ IF audio_queue # <<>>
       THEN /\ audio_chunk' = [audio_chunk EXCEPT ![g] = QueueFront(audio_queue)]
            /\ audio_queue' = QueueRest(audio_queue)
            /\ dequeued' = Append(dequeued, QueueFront(audio_queue))
            /\ backlog' = IF backlog # <<>> /\ Head(backlog) = QueueFront(audio_queue)
                          THEN Tail(backlog)
                          ELSE backlog
            /\ proc_pc' = [proc_pc EXCEPT ![g] = "transcribe"]
       ELSE /\ GetTimesOut
            /\ proc_pc' = [proc_pc EXCEPT ![g] = "test"]
            /\ UNCHANGED <<audio_chunk, audio_queue, dequeued, backlog>>
    /\ UNCHANGED <<transcription, tmp_files, recog, translate_calls, translated, output>>
    /\ UNCHANGED <<is_running, recording_thread, processing_thread, gen, ctl_pc, ret,
                   queue_at_stop, deq_at_stop, init_vars>>
    /\ UNCHANGED <<rec_vars, cb_vars>>

\* lines 106-114: the temporary file is created and the resampled chunk written.
transcribe_tmpfile(g) ==
    /\ proc_pc[g] = "transcribe"
    /\ tmp_files' = tmp_files + 1
    /\ proc_pc' = [proc_pc EXCEPT ![g] = "whisper"]
    /\ UNCHANGED <<audio_chunk, transcription, dequeued, recog, translate_calls, translated, output>>
    /\ UNCHANGED <<ctl_vars, rec_vars, cb_vars, audio_queue>>

\* line 106 raises: the handler at lines 145-146 reads tmp_filename, which was
\* never bound, and that exception reaches lines 99-100 of _process_chunks.
transcribe_tmpfile_fail(g) ==
    /\ proc_pc[g] = "transcribe"
    /\ recog' = [recog EXCEPT ![audio_chunk[g]] = "failed"]
    /\ ChunkErrorCaught(g)
    /\ UNCHANGED <<tmp_files, dequeued, translate_calls, translated, output>>
    /\ UNCHANGED <<ctl_vars, rec_vars, cb_vars, audio_queue>>

\* lines 89-95 for a transcription t returned by _transcribe_chunk: either the
\* call of _translate_text is issued or the iteration ends.
AfterTranscribe(g, t) ==
    IF WantsTranslation(t)
    THEN /\ transcription' = [transcription EXCEPT ![g] = t]
         /\ translate_calls' = Append(translate_calls, <<audio_chunk[g], t[1], LANGUAGE>>)
         /\ proc_pc' = [proc_pc EXCEPT ![g] = "translate"]
         /\ UNCHANGED audio_chunk
    ELSE /\ NextIteration(g)
         /\ UNCHANGED translate_calls

\* lines 126-138: whisper-cli exits with status 0; the file is removed.
transcribe_ok(g) ==
    /\ proc_pc[g] = "whisper"
    /\ \E stdout \in Stdouts :
          /\ recog' = [recog EXCEPT ![audio_chunk[g]] = ResultOf(stdout)]
          /\ AfterTranscribe(g, TranscriptionOf(stdout))
    /\ tmp_files' = tmp_files - 1
    /\ UNCHANGED <<dequeued, translated, output>>
    /\ UNCHANGED <<ctl_vars, rec_vars, cb_vars, audio_queue>>

\* A timeout handler without the os.remove of lines 141-142.
transcribe_timeout_KeepsFile(g) ==
    /\ proc_pc[g] = "whisper"
    /\ recog' = [recog EXCEPT ![audio_chunk[g]] = "failed"]
    /\ AfterTranscribe(g, None)
    /\ UNCHANGED <<tmp_files, dequeued, translated, output>>
    /\ UNCHANGED <<ctl_vars, rec_vars, cb_vars, audio_queue>>

\* lines 140-144: subprocess.TimeoutExpired; the file is removed, None returned.
transcribe_timeout(g) ==
    /\ proc_pc[g] = "whisper"
    /\ recog' = [recog EXCEPT ![audio_chunk[g]] = "failed"]
    /\ AfterTranscribe(g, None)
    /\ tmp_files' = tmp_files - 1
    /\ UNCHANGED <<dequeued, translated, output>>
    /\ UNCHANGED <<ctl_vars, rec_vars, cb_vars, audio_queue>>

\* lines 145-148: non-zero exit status (check=True) or any other exception; the
\* file is removed, None returned.
transcribe_error(g) ==
    /\ proc_pc[g] = "whisper"
    /\ recog' = [recog EXCEPT ![audio_chunk[g]] = "failed"]
    /\ AfterTranscribe(g, None)
    /\ tmp_files' = tmp_files - 1
    /\ UNCHANGED <<dequeued, translated, output>>
    /\ UNCHANGED <<ctl_vars, rec_vars, cb_vars, audio_queue>>

\* lines 165-177 and 93-95: the service answers; a non-empty translation is printed.
translate_ok(g) ==
    /\ proc_pc[g] = "translate"
    /\ \E response \in Responses :
          /\ translated' = [translated EXCEPT ![audio_chunk[g]] =
                                Translated(TranslationOf(response)[1])]
          /\ output' = IF Truthy(TranslationOf(response))
                       THEN Append(output, <<audio_chunk[g],
                                             PrintedLine(TranslationOf(response)[1])>>)
                       ELSE output
    /\ NextIteration(g)
    /\ UNCHANGED <<tmp_files, dequeued, recog, translate_calls>>
    /\ UNCHANGED <<ctl_vars, rec_vars, cb_vars, audio_queue>>

\* A _translate_text that returns the error message in place of None.
translate_fail_ReturnsMessage(g) ==
    /\ proc_pc[g] = "translate"
    /\ translated' = [translated EXCEPT ![audio_chunk[g]] = TranslationFailed]
    /\ output' = Append(output, <<audio_chunk[g], PrintedLine(<<"error">>)>>)
    /\ NextIteration(g)
    /\ UNCHANGED <<tmp_files, dequeued, recog, translate_calls>>
    /\ UNCHANGED <<ctl_vars, rec_vars, cb_vars, audio_queue>>

\* lines 179-183: the request fails or the answer is malformed; None returned.
translate_fail(g) ==
    /\ proc_pc[g] = "translate"
    /\ translated' = [translated EXCEPT ![audio_chunk[g]] = TranslationFailed]
    /\ NextIteration(g)
    /\ UNCHANGED <<tmp_files, dequeued, recog, translate_calls, output>>
    /\ UNCHANGED <<ctl_vars, rec_vars, cb_vars, audio_queue>>

-----------------------------------------------------------------------------
Control ==
    \/ verify_paths
    \/ call_start
    \/ start_check
    \/ start_recording_thread
    \/ start_processing_thread
    \/ call_stop
    \/ stop_check
    \/ stop_join_recording
    \/ stop_join_processing

Recording(g) ==
    \/ record_open(g)
    \/ record_open_fail(g)
    \/ record_poll(g)
    \/ record_close(g)

Callback(g) ==
    \/ callback_enter(g)
    \/ callback_check(g)
    \/ callback_put(g)

Processing(g) ==
    \/ process_test(g)
    \/ process_get(g)
    \/ transcribe_tmpfile(g)
    \/ transcribe_tmpfile_fail(g)
    \/ transcribe_ok(g)
    \/ transcribe_timeout(g)
    \/ transcribe_error(g)
    \/ translate_ok(g)
    \/ translate_fail(g)

Next ==
    \/ Control
    \/ \E g \in Gens : Recording(g)
    \/ \E g \in Gens : Callback(g)
    \/ \E g \in Gens : Processing(g)

Spec == Init /\ [][Next]_vars

\* Every thread that can take a step eventually takes one, a join returns once
\* its thread has ended, and every call of whisper-cli or of the translation
\* service returns or times out. The caller and the device are not obliged to act.
Fairness ==
    /\ WF_vars(stop_join_recording \/ stop_join_processing)
    /\ \A g \in Gens : WF_vars(Recording(g))
    /\ \A g \in Gens : WF_vars(callback_check(g) \/ callback_put(g))
    /\ \A g \in Gens : WF_vars(Processing(g))

FairSpec == Spec /\ Fairness

-----------------------------------------------------------------------------
\* Properties.

NoWorkerAlive == \A g \in Gens : ~Alive(rec_pc[g]) /\ ~Alive(proc_pc[g])

\* stop() has returned after clearing the flag, and no call was made since.
StopReturned == ctl_pc = "idle" /\ ret = "stop"

CalledChunks == {translate_calls[i][1] : i \in DOMAIN translate_calls}
OutputChunks == {output[i][1] : i \in DOMAIN output}

\* The chunk of a callback or of a processing thread that is under way.
InCallback(c) == \E g \in Gens : cb_chunk[g] = c
InCall(g) == proc_pc[g] \in {"whisper", "translate"}
InStages(g) == proc_pc[g] \in {"transcribe", "whisper", "translate"}

StrictlyIncreasing(s) == \A i, j \in DOMAIN s : i < j => s[i] < s[j]

\* C1: when stop() returns after clearing the flag, neither the recording thread
\* nor the processing thread of any start() is alive.
C1_StopJoinsWorkers == StopReturned => NoWorkerAlive

\* stop() has returned on a pipeline whose workers captured and processed a chunk.
C1_Witness == StopReturned /\ ~device_failed /\ dequeued # <<>>

\* C2: the chunks got from the queue are, in order, the first chunks put in it,
\* and the queue holds the rest: nothing is got out of order or without a put.
C2_Fifo ==
    /\ Len(dequeued) <= Len(enqueued)
    /\ \A i \in DOMAIN dequeued : dequeued[i] = enqueued[i]
    /\ enqueued = dequeued \o audio_queue

\* Two chunks were put and both were got.
C2_Witness == Len(dequeued) >= 2

\* C3: once stop() has cleared the flag, both workers end and stop() returns.
C3_ShutdownLiveness == (ctl_pc = "stop_204") ~> (StopReturned /\ NoWorkerAlive)

\* stop() waits while the processing thread is in its timed get on an empty
\* queue and the recording thread is still in its polling loop.
C3_Witness ==
    /\ ctl_pc = "stop_204"
    /\ audio_queue = <<>>
    /\ \E g \in Gens : proc_pc[g] = "get" /\ rec_pc[g] = "loop"

\* C4: a chunk whose recognition failed gets no translation call and no output,
\* and while the flag is set the processing thread of the last start() is alive.
C4_FailureIsolation ==
    /\ \A c \in Chunks :
          recog[c] = "failed" => c \notin CalledChunks /\ c \notin OutputChunks
    /\ (is_running /\ ctl_pc \notin {"start_52", "start_56"})
          => Alive(proc_pc[processing_thread])

\* Recognition failed on a chunk and the next chunk got was translated and printed.
C4_Witness ==
    \E i \in DOMAIN dequeued :
        /\ i + 1 \in DOMAIN dequeued
        /\ recog[dequeued[i]] = "failed"
        /\ recog[dequeued[i + 1]] = "text"
        /\ dequeued[i + 1] \in OutputChunks

\* C5: a chunk recognised as the blank-audio sentinel, or as nothing, gets no
\* translation call and no output.
C5_BlankShortCircuit ==
    \A c \in Chunks :
        recog[c] \in {"blank", "empty"} => c \notin CalledChunks /\ c \notin OutputChunks

\* One chunk was recognised as the sentinel and one as nothing, and the
\* processing thread has gone on.
C5_Witness ==
    /\ \E c \in Chunks : recog[c] = "blank"
    /\ \E c \in Chunks : recog[c] = "empty"
    /\ \A g \in Gens : audio_chunk[g] = 0

\* C6: when the device could not be opened, start() does not leave the flag set
\* nor a processing thread alive.
C6_FailFast ==
    (device_failed /\ ctl_pc = "idle" /\ ret = "start")
        => ~is_running /\ \A g \in Gens : ~Alive(proc_pc[g])

\* C7 as stated: when the processing thread has ended after stop() cleared the
\* flag, every chunk that was in the queue at that moment has been got.
C7_DrainOnStop ==
    (~is_running /\ processing_thread # 0 /\ ~Alive(proc_pc[processing_thread]))
        => Range(queue_at_stop) \subseteq Range(dequeued)

\* C7 as amended: after stop() has cleared the flag at most one more chunk is got.
C7_AtMostOneAfterStop == ~is_running => Len(dequeued) <= deq_at_stop + 1

\* stop() has returned, one chunk was got after the flag was cleared, and a
\* chunk that was in the queue at that moment is still there.
C7_Witness ==
    /\ StopReturned
    /\ Len(dequeued) = deq_at_stop + 1
    /\ \E c \in Range(queue_at_stop) : c \in Range(audio_queue)

\* C8: a line is printed only for the chunk got last, so before the next chunk
\* is got; the lines are in the order the chunks were got, one line a chunk at
\* most; and at most one processing thread holds a chunk.
C8_EmissionOrder ==
    /\ [][output' # output =>
             /\ dequeued # <<>>
             /\ output' = Append(output, output'[Len(output')])
             /\ output'[Len(output')][1] = dequeued[Len(dequeued)]]_vars
    /\ [](\A i, j \in DOMAIN output : i < j => output[i][1] < output[j][1])
    /\ [](Cardinality({g \in Gens : InStages(g)}) <= 1)

\* Two lines were printed.
C8_Witness == Len(output) >= 2

\* C9: a recognition under way is never abandoned: a chunk that was got and has
\* no recognition result is held by a live processing thread; and after stop()
\* has returned no thread is inside a recognition or translation call.
C9_NoHardCancel ==
    /\ \A c \in Range(dequeued) :
          recog[c] = "none" => \E g \in Gens : Alive(proc_pc[g]) /\ audio_chunk[g] = c
    /\ StopReturned => \A g \in Gens : ~InCall(g)

\* stop() has cleared the flag and waits while a call is under way.
C9_Witness == ctl_pc = "stop_206" /\ \E g \in Gens : InCall(g)

\* The callback of thread g's stream returns in this step.
CallbackReturns(g) == cb_chunk[g] # 0 /\ cb_chunk'[g] = 0

\* C10 as stated: chunks are put in capture order and never twice, and the
\* callback of a chunk the device completed while the control thread was
\* outside stop() returns only after putting the chunk.
C10_ExactlyOnce ==
    /\ [](StrictlyIncreasing(enqueued))
    /\ [][\A g \in Gens :
             (CallbackReturns(g) /\ cb_before_stop[g])
                 => enqueued' = Append(enqueued, cb_chunk[g])]_vars

\* C10 as amended: chunks are put in capture order and never twice, and a
\* callback that returns while the flag is set has put its chunk.
C10_EnqueuedWhileRunning ==
    /\ [](StrictlyIncreasing(enqueued))
    /\ [][\A g \in Gens :
             (CallbackReturns(g) /\ is_running)
                 => enqueued' = Append(enqueued, cb_chunk[g])]_vars

\* Two chunks were completed and their callbacks have returned: one chunk was
\* put while the flag was set, the other was skipped.
C10_Witness ==
    /\ is_running
    /\ \E c, d \in 1..(next_chunk - 1) :
          /\ c \in Range(enqueued)
          /\ d \notin Range(enqueued)
          /\ ~InCallback(d)

\* Everything but the position of the control thread.
pipeline_vars ==
    <<is_running, audio_queue, recording_thread, processing_thread, gen, ret,
      rec_vars, cb_vars, proc_vars, queue_at_stop, deq_at_stop, backlog,
      init_vars>>

\* C11: a stop() called while the flag is clear returns from its first test and
\* changes nothing: the flag, the queue, the thread attributes and the threads
\* are as before, and no join is reached.
C11_StopWhenIdleIsNoOp ==
    [][(~is_running /\ ctl_pc' # ctl_pc /\ ctl_pc \in {"idle", "stop_197"}
          /\ (ctl_pc = "idle" => ctl_pc' = "stop_197"))
         => /\ ctl_pc = "stop_197" => ctl_pc' = "idle"
            /\ UNCHANGED pipeline_vars]_vars

\* stop() is called a second time, after a stop() that left a chunk in the queue.
C11_Witness ==
    /\ ctl_pc = "stop_197"
    /\ ~is_running
    /\ ret = "stop"
    /\ audio_queue # <<>>

\* A start() that followed a returned stop() has returned.
Restarted == ctl_pc = "idle" /\ ret = "start" /\ gen >= 2

\* C12: after start() and a returned stop(), the next start() resumes the
\* pipeline, for every cycle: the flag is set, the thread attributes name the
\* two threads of this start(), the processing thread is alive and so is the
\* recording thread (unless the device could not be opened), no thread of an
\* earlier start() is alive, and a chunk in the queue once the new processing
\* thread is started is recognised by it unless stop() is called first.
C12_RestartResumes ==
    /\ [](Restarted
             => /\ is_running
                /\ recording_thread = gen /\ processing_thread = gen
                /\ Alive(proc_pc[gen])
                /\ Alive(rec_pc[gen]) \/ device_failed
                /\ \A g \in Gens : g < gen =>
                       ~Alive(rec_pc[g]) /\ ~Alive(proc_pc[g]))
    /\ \A c \in Chunks :
          (gen >= 2 /\ is_running /\ processing_thread = gen
             /\ Alive(proc_pc[gen]) /\ c \in Range(audio_queue))
              ~> (recog[c] # "none" \/ ~is_running)

\* After a restart both threads of the second start() are at work: the device
\* callback is about to enqueue a chunk and the worker has recognised another.
C12_Witness ==
    /\ Restarted
    /\ gen = 2
    /\ rec_pc[2] = "loop"
    /\ cb_pc[2] = "put"
    /\ proc_pc[2] = "translate"

\* The words u appear in line, next to each other and in order.
Carries(line, u) ==
    \E k \in 0..(Len(line) - Len(u)) : SubSeq(line, k + 1, k + Len(u)) = u

\* The texts _transcribe_chunk can return that hold words and no sentinel.
PlainTexts == {strip(stdout) : stdout \in {s \in Stdouts : ResultOf(s) = "text"}}

CallsFor(c) == {i \in DOMAIN translate_calls : translate_calls[i][1] = c}

OutputsFor(c) == {i \in DOMAIN output : output[i][1] = c}

\* C13: for a chunk whose recognised text T has words and no blank-audio
\* sentinel and whose translation call returned a non-empty text U, the
\* translation was called exactly once, with T and the target language Spanish,
\* and exactly one output was printed for the chunk, and it carries U.
C13_EmissionOnSuccess ==
    \A c \in Chunks :
        (/\ recog[c] = "text"
         /\ translated[c][1] = "ok"
         /\ translated[c][2] # <<>>)
            => /\ Cardinality(CallsFor(c)) = 1
               /\ \A i \in CallsFor(c) :
                      /\ translate_calls[i][2] \in PlainTexts
                      /\ translate_calls[i][3] = "Spanish"
               /\ Cardinality(OutputsFor(c)) = 1
               /\ \A i \in OutputsFor(c) : Carries(output[i][2], translated[c][2])

\* A chunk was recognised as text, translated to "hola" and printed.
C13_Witness ==
    \E c \in Chunks :
        /\ recog[c] = "text"
        /\ translated[c] = Translated(<<"hola">>)
        /\ OutputsFor(c) # {}

\* The translation call of chunk c fails in this step.
TranslationFails(c) ==
    translated[c] # TranslationFailed /\ translated'[c] = TranslationFailed

\* C14: a chunk whose translation call failed (request error, timeout, bad
\* status, malformed answer) never has an output; the failure prints nothing and
\* takes the worker that held the chunk back to its loop test, so while the
\* pipeline runs the worker stays alive to get the next chunk.
C14_TranslationFailureIsPerChunk ==
    /\ [](\A c \in Chunks : translated[c] = TranslationFailed => OutputsFor(c) = {})
    /\ [][\A c \in Chunks :
             TranslationFails(c)
                => /\ output' = output
                   /\ \E g \in Gens :
                         /\ audio_chunk[g] = c
                         /\ proc_pc[g] = "translate"
                         /\ proc_pc'[g] = "test"]_vars
    /\ []((ctl_pc = "idle" /\ ret = "start"
              /\ \E c \in Chunks : translated[c] = TranslationFailed)
             => Alive(proc_pc[gen]))

\* The translation of one chunk failed and the chunk after it was translated
\* and printed.
C14_Witness ==
    \E c, d \in Chunks :
        /\ c < d
        /\ translated[c] = TranslationFailed
        /\ translated[d] = Translated(<<"hola">>)
        /\ OutputsFor(d) # {}

\* The callback of stream g finishes its put in this step.
PutDone(g) == cb_pc[g] = "put" /\ cb_pc'[g] # "put"

\* C15: the queue has no cap. A callback that found the flag set can always
\* complete its put, whatever the queue holds, and the put appends the chunk
\* and drops nothing; the queue can so hold every chunk captured so far.
C15_NoQueueCap ==
    /\ [](\A g \in Gens : cb_pc[g] = "put" => ENABLED callback_put(g))
    /\ [][\A g \in Gens :
             PutDone(g) => audio_queue' = Append(audio_queue, cb_chunk[g])]_vars

\* Capture outpaced the worker: every chunk the device delivered is waiting in
\* the queue and none was dequeued.
C15_Witness ==
    /\ is_running
    /\ Len(audio_queue) = MaxChunks
    /\ dequeued = <<>>

\* C16: when the binary or the model file is missing at construction, __init__
\* reports the missing path and the process exits: the flag is never set, no
\* start() is entered and no worker thread is ever created.
C16_FatalStartupErrors ==
    ~(binary_exists /\ model_exists)
        => /\ ctl_pc \in {"init_34", "exited"}
           /\ ctl_pc = "exited" => reported = (IF binary_exists THEN "model" ELSE "binary")
           /\ ~is_running
           /\ gen = 0
           /\ recording_thread = 0 /\ processing_thread = 0
           /\ \A g \in Gens : rec_pc[g] = "unborn" /\ proc_pc[g] = "unborn"

\* The binary is there and the model file is not: reported, and the process is gone.
C16_Witness ==
    /\ ctl_pc = "exited"
    /\ binary_exists /\ ~model_exists
    /\ reported = "model"

\* C17: at most one recording thread and at most one processing thread are
\* alive at any time, and a start() called while the flag is set returns from
\* its first test: it changes neither the flag nor the queue and creates no
\* thread.
C17_SingleWorkerPair ==
    /\ [](/\ Cardinality({g \in Gens : Alive(rec_pc[g])}) <= 1
          /\ Cardinality({g \in Gens : Alive(proc_pc[g])}) <= 1)
    /\ [][(is_running /\ ctl_pc' # ctl_pc /\ ctl_pc \in {"idle", "start_43"}
             /\ (ctl_pc = "idle" => ctl_pc' = "start_43"))
            => /\ ctl_pc = "start_43" => ctl_pc' = "idle"
               /\ UNCHANGED pipeline_vars]_vars

\* start() is called while the second pair of workers is running.
C17_Witness ==
    /\ ctl_pc = "start_43"
    /\ is_running
    /\ gen = 2
    /\ Alive(rec_pc[2])
    /\ Alive(proc_pc[2])

\* C18: from the return of a stop() that cleared the flag until the next
\* start() sets it, nothing is put in or got from the queue, no recognition and
\* no translation call is made, nothing is printed and no temporary file is
\* created: the queue holds what it held when stop() returned.
C18_QuiescentAfterStop ==
    [][ret = "stop"
         => UNCHANGED <<audio_queue, enqueued, dequeued, recog, translate_calls,
                        translated, output, tmp_files, audio_chunk, cb_chunk>>]_vars

\* stop() has returned with a chunk printed and another left in the queue.
C18_Witness ==
    /\ StopReturned
    /\ audio_queue # <<>>
    /\ output # <<>>

\* s is the beginning of t.
IsPrefix(s, t) == Len(s) <= Len(t) /\ SubSeq(t, 1, Len(s)) = s

\* A chunk is got from the queue in this step.
Dequeues == Len(dequeued') = Len(dequeued) + 1

\* C19: the chunks left in the queue by a stop() are still there after the next
\* start(): no step of stop() or start() changes the queue, the leftover chunks
\* stay at the front of the queue in their order while chunks captured after
\* the restart queue up behind them, each is got by the new processing thread
\* before any later chunk, and under fair scheduling the new thread gets them
\* all unless stop() is called again.
C19_BacklogCarriesOver ==
    /\ [](IsPrefix(backlog, audio_queue))
    /\ [][ctl_pc' # ctl_pc => audio_queue' = audio_queue]_vars
    /\ [][(Dequeues /\ backlog # <<>>)
            => /\ dequeued' = Append(dequeued, Head(backlog))
               /\ audio_chunk'[gen] = Head(backlog)]_vars
    /\ (backlog # <<>> /\ processing_thread = gen /\ Alive(proc_pc[gen]))
          ~> (backlog = <<>>)

\* After a restart the chunk left by the first run is at the front of the
\* queue, a chunk captured since is behind it, and the new worker is about to
\* get from the queue.
C19_Witness ==
    /\ gen = 2
    /\ is_running
    /\ backlog # <<>>
    /\ Len(audio_queue) > Len(backlog)
    /\ proc_pc[2] = "get"

\* The processing threads that are inside _transcribe_chunk with their
\* temporary file created.
HoldingTmpFile == {g \in Gens : proc_pc[g] = "whisper"}

\* C20: every temporary WAV file belongs to a _transcribe_chunk call in
\* progress: each call has removed its file when it returns, whether whisper-cli
\* succeeded, timed out, exited with an error or another exception was raised,
\* and no file exists while no processing thread is inside the call.
C20_TempFileCleanup ==
    /\ tmp_files = Cardinality(HoldingTmpFile)
    /\ (\A g \in Gens : proc_pc[g] \notin {"transcribe", "whisper"}) => tmp_files = 0

\* _transcribe_chunk has returned a text, the worker is in the translation call
\* and the file of the chunk is gone.
C20_Witness ==
    \E g \in Gens :
        /\ proc_pc[g] = "translate"
        /\ recog[audio_chunk[g]] = "text"
        /\ tmp_files = 0

====
